---- MODULE Spec2Model ----
(***************************************************************************)
(* Model of the time based resource scheduling filters of                  *)
(* c7n/filters/offhours.py (Time, BaseHour, OnHour, OffHour,               *)
(* ScheduleParser) and c7n/filters/businesshours.py (BusinessHours).       *)
(*                                                                         *)
(* Python strings are sequences of one-character strings, so that split,   *)
(* strip, lower, translate, isdigit and int are computed as Python         *)
(* computes them.  Python's None and raised exceptions are explicit        *)
(* records.  A time of day is the number of minutes since midnight, a      *)
(* zone-aware instant is a minute of the UTC week.                         *)
(***************************************************************************)
EXTENDS Integers, Sequences, FiniteSets, TLC

VARIABLES
    data,        \* the policy's configuration mapping handed to the filters
    manager,     \* the manager collaborator: [present, log_dir]
    flt,         \* the filter instances of the policy, by registered name
    clock,       \* position of the wall clock in Instants
    last,        \* per filter: what its latest __call__ saw and returned
    ncalls,      \* number of operations run so far (bounded by MaxCalls)
    parser,      \* a stand-alone ScheduleParser (parser specification)
    plast        \* what the latest parse call on `parser` got and returned

vars == <<data, manager, flt, clock, last, ncalls, parser, plast>>

(***************************************************************************)
(* Python values.                                                          *)
(***************************************************************************)
None == [isNone |-> TRUE]
Some(v) == [isNone |-> FALSE, val |-> v]

Raised(e) == [raised |-> TRUE, exc |-> e]
Returned(v) == [raised |-> FALSE, val |-> v]

(***************************************************************************)
(* Python string operations on sequences of characters.                    *)
(***************************************************************************)
Digits == {"0", "1", "2", "3", "4", "5", "6", "7", "8", "9"}

DigitVal(c) ==
    CASE c = "0" -> 0 [] c = "1" -> 1 [] c = "2" -> 2 [] c = "3" -> 3
      [] c = "4" -> 4 [] c = "5" -> 5 [] c = "6" -> 6 [] c = "7" -> 7
      [] c = "8" -> 8 [] c = "9" -> 9

\* str.lower on one character (ASCII folding)
lower_char(c) ==
    CASE c = "A" -> "a" [] c = "B" -> "b" [] c = "C" -> "c" [] c = "D" -> "d"
      [] c = "E" -> "e" [] c = "F" -> "f" [] c = "G" -> "g" [] c = "H" -> "h"
      [] c = "I" -> "i" [] c = "J" -> "j" [] c = "K" -> "k" [] c = "L" -> "l"
      [] c = "M" -> "m" [] c = "N" -> "n" [] c = "O" -> "o" [] c = "P" -> "p"
      [] c = "Q" -> "q" [] c = "R" -> "r" [] c = "S" -> "s" [] c = "T" -> "t"
      [] c = "U" -> "u" [] c = "V" -> "v" [] c = "W" -> "w" [] c = "X" -> "x"
      [] c = "Y" -> "y" [] c = "Z" -> "z" [] OTHER -> c

\* str.lower
lower(s) == [k \in 1..Len(s) |-> lower_char(s[k])]

StartsWith(s, p) == Len(s) >= Len(p) /\ SubSeq(s, 1, Len(p)) = p

\* str.split(sep) for a non-empty separator: every piece, the empty ones too.
\* piece is the piece being read, pieces the ones already ended by sep.
RECURSIVE split_from(_, _, _, _)
split_from(s, sep, piece, pieces) ==
    IF Len(s) = 0 THEN Append(pieces, piece)
    ELSE IF StartsWith(s, sep)
         THEN split_from(SubSeq(s, Len(sep) + 1, Len(s)), sep, <<>>,
                         Append(pieces, piece))
         ELSE split_from(Tail(s), sep, Append(piece, Head(s)), pieces)

split(s, sep) == split_from(s, sep, <<>>, <<>>)

\* sep.join(pieces)
RECURSIVE join(_, _)
join(sep, pieces) ==
    IF Len(pieces) = 0 THEN <<>>
    ELSE IF Len(pieces) = 1 THEN Head(pieces)
    ELSE Head(pieces) \o sep \o join(sep, Tail(pieces))

\* filter(None, pieces): the non-empty strings of a list
RECURSIVE filter_none(_)
filter_none(pieces) ==
    IF Len(pieces) = 0 THEN <<>>
    ELSE IF Len(Head(pieces)) = 0 THEN filter_none(Tail(pieces))
    ELSE <<Head(pieces)>> \o filter_none(Tail(pieces))

\* str.translate(None, deletechars)
RECURSIVE translate_delete(_, _)
translate_delete(s, chars) ==
    IF Len(s) = 0 THEN <<>>
    ELSE IF Head(s) \in chars THEN translate_delete(Tail(s), chars)
    ELSE <<Head(s)>> \o translate_delete(Tail(s), chars)

RECURSIVE lstrip(_, _)
lstrip(s, c) ==
    IF Len(s) > 0 /\ Head(s) = c THEN lstrip(Tail(s), c) ELSE s

RECURSIVE rstrip(_, _)
rstrip(s, c) ==
    IF Len(s) > 0 /\ s[Len(s)] = c THEN rstrip(SubSeq(s, 1, Len(s) - 1), c) ELSE s

\* str.strip(c) for a one-character argument
strip(s, c) == rstrip(lstrip(s, c), c)

\* str.isdigit: non-empty and digits only
isdigit(s) == Len(s) > 0 /\ \A k \in 1..Len(s) : s[k] \in Digits

\* int(s) for a string of digits
RECURSIVE int(_)
int(s) ==
    IF Len(s) = 0 THEN 0
    ELSE 10 * int(SubSeq(s, 1, Len(s) - 1)) + DigitVal(s[Len(s)])

\* range(a, b)
range(a, b) == [k \in 1..(IF b > a THEN b - a ELSE 0) |-> a + k - 1]

\* d[k] = v on a dict
dict_set(d, k, v) == [x \in DOMAIN d \cup {k} |-> IF x = k THEN v ELSE d[x]]

EmptyDict == [x \in {} |-> x]

(***************************************************************************)
(* Constants of offhours.py.                                               *)
(***************************************************************************)
TT_ON == <<"o", "n">>
TT_OFF == <<"o", "f", "f">>
TZ == <<"t", "z">>

RANGE_START == "start"
RANGE_END == "end"

DEFAULT_TAG == <<"m", "a", "i", "d", "_", "o", "f", "f", "h", "o", "u", "r", "s">>
DEFAULT_TZ == <<"e", "t">>

TZ_ALIASES ==
    (<<"p", "d", "t">> :> "America/Los_Angeles") @@
    (<<"p", "t">> :> "America/Los_Angeles") @@
    (<<"p", "s", "t">> :> "America/Los_Angeles") @@
    (<<"e", "s", "t">> :> "America/New_York") @@
    (<<"e", "d", "t">> :> "America/New_York") @@
    (<<"e", "t">> :> "America/New_York") @@
    (<<"c", "s", "t">> :> "America/Chicago") @@
    (<<"c", "d", "t">> :> "America/Chicago") @@
    (<<"c", "t">> :> "America/Chicago") @@
    (<<"m", "t">> :> "America/Denver") @@
    (<<"g", "m", "t">> :> "Etc/GMT") @@
    (<<"g", "t">> :> "Etc/GMT") @@
    (<<"b", "s", "t">> :> "Europe/London") @@
    (<<"i", "s", "t">> :> "Europe/Dublin") @@
    (<<"c", "e", "t">> :> "Europe/Berlin") @@
    (<<"i", "t">> :> "Asia/Kolkata") @@
    (<<"j", "s", "t">> :> "Asia/Tokyo") @@
    (<<"k", "s", "t">> :> "Asia/Seoul") @@
    (<<"s", "g", "t">> :> "Asia/Singapore") @@
    (<<"a", "e", "t">> :> "Australia/Sydney") @@
    (<<"b", "r", "t">> :> "America/Sao_Paulo")

(***************************************************************************)
(* The zone database behind dateutil's zoneinfo.gettz: the zones the alias *)
(* table names, plus GMT, a name of the database that a configuration can  *)
(* spell directly.  Offsets are the zones' standard-time offsets from UTC, *)
(* in minutes.                                                             *)
(***************************************************************************)
ZoneDatabase ==
    {"America/Los_Angeles", "America/New_York", "America/Chicago",
     "America/Denver", "Etc/GMT", "Europe/London", "Europe/Dublin",
     "Europe/Berlin", "Asia/Kolkata", "Asia/Tokyo", "Asia/Seoul",
     "Asia/Singapore", "Australia/Sydney", "America/Sao_Paulo", "GMT"}

\* the database name a string that is not an alias spells ("" when it spells none)
ZoneNameOf(tz) == IF tz = <<"G", "M", "T">> THEN "GMT" ELSE ""

utcoffset(zone) ==
    CASE zone = "America/Los_Angeles" -> -8 * 60
      [] zone = "America/Denver" -> -7 * 60
      [] zone = "America/Chicago" -> -6 * 60
      [] zone = "America/New_York" -> -5 * 60
      [] zone = "America/Sao_Paulo" -> -3 * 60
      [] zone = "Europe/Berlin" -> 60
      [] zone = "Asia/Kolkata" -> 5 * 60 + 30
      [] zone = "Asia/Singapore" -> 8 * 60
      [] zone = "Asia/Tokyo" -> 9 * 60
      [] zone = "Asia/Seoul" -> 9 * 60
      [] zone = "Australia/Sydney" -> 10 * 60
      [] OTHER -> 0

\* zoneinfo.gettz(name): the zone, or None for a name the database lacks
gettz(name) == IF name \in ZoneDatabase THEN Some(name) ELSE None

\* Time.get_tz
get_tz(tz) ==
    gettz(IF tz \in DOMAIN TZ_ALIASES THEN TZ_ALIASES[tz] ELSE ZoneNameOf(tz))

MinutesPerDay == 24 * 60
MinutesPerWeek == 7 * MinutesPerDay

\* datetime.datetime.now(tz).replace(second=0, microsecond=0), as the
\* minute of the local week; weekday() and time() of that value
now_in(zone, instant) == (instant + utcoffset(zone) + MinutesPerWeek) % MinutesPerWeek
weekday(now) == now \div MinutesPerDay
time_of(now) == now % MinutesPerDay

(***************************************************************************)
(* ScheduleParser.                                                         *)
(***************************************************************************)
VALID_HOURS == 0..23
VALID_MINUTES == 0..59

\* DAY_MAP.get(s): the weekday of a day letter, None for anything else
DAY_MAP_get(s) ==
    IF Len(s) # 1 THEN None
    ELSE CASE s[1] = "m" -> Some(0) [] s[1] = "t" -> Some(1)
           [] s[1] = "w" -> Some(2) [] s[1] = "h" -> Some(3)
           [] s[1] = "f" -> Some(4) [] s[1] = "s" -> Some(5)
           [] s[1] = "u" -> Some(6) [] OTHER -> None

\* ScheduleParser.raw_data: fold of the key=value pieces into a dict
RECURSIVE raw_data_pieces(_, _)
raw_data_pieces(pieces, d) ==
    IF Len(pieces) = 0 THEN d
    ELSE LET kv == split(Head(pieces), <<"=">>)
         IN  IF Len(kv) # 2 THEN raw_data_pieces(Tail(pieces), d)
             ELSE raw_data_pieces(Tail(pieces), dict_set(d, kv[1], kv[2]))

RECURSIVE split_each(_, _)
split_each(ps, sep) ==
    IF Len(ps) = 0 THEN <<>> ELSE split(Head(ps), sep) \o split_each(Tail(ps), sep)

raw_data(tag_value) ==
    raw_data_pieces(split_each(split(tag_value, <<" ">>), <<";">>), EmptyDict)

\* ScheduleParser.keys_are_valid
keys_are_valid(tag_value) ==
    \A key \in DOMAIN raw_data(tag_value) : key \in {TT_ON, TT_OFF, TZ}

\* ScheduleParser.has_resource_schedule
has_resource_schedule(tag_value, time_type) ==
    time_type \in DOMAIN raw_data(tag_value)

\* the d that are not None, of map(DAY_MAP.get, parts)
RECURSIVE day_range_of(_)
day_range_of(parts) ==
    IF Len(parts) = 0 THEN <<>>
    ELSE (IF DAY_MAP_get(Head(parts)).isNone THEN <<>>
          ELSE <<DAY_MAP_get(Head(parts)).val>>) \o day_range_of(Tail(parts))

\* lines 707-712 of expand_day_range, on the day_range of line 705
expand_day_pair(day_range) ==
    IF Len(day_range) # 2 THEN None
    ELSE IF day_range[1] > day_range[2]
         THEN Some(range(day_range[1], 7) \o range(0, day_range[2] + 1))
         ELSE Some(range(day_range[1], day_range[2] + 1))

\* ScheduleParser.expand_day_range
expand_day_range(days) ==
    IF ~DAY_MAP_get(days).isNone THEN Some(<<DAY_MAP_get(days).val>>)
    ELSE expand_day_pair(day_range_of(split(days, <<"-">>)))

\* the test on the number of fields of a group (line 680)
tokens_count_rejected(tokens_count) == 3 > tokens_count /\ tokens_count < 2

\* lines 695-698: the toggle of a group whose hour and minute are valid
toggle_of_days(days, hour, minute) ==
    IF days.isNone THEN None
    ELSE IF Len(days.val) = 0 THEN None
    ELSE Some([days |-> days.val, hour |-> hour, minute |-> minute])

\* lines 688-698, the minute being known
toggle_of_tokens(tokens, minute) ==
    IF ~isdigit(tokens[2]) THEN None
    ELSE IF int(tokens[2]) \notin VALID_HOURS THEN None
    ELSE IF minute \notin VALID_MINUTES THEN None
    ELSE toggle_of_days(expand_day_range(tokens[1]), int(tokens[2]), minute)

\* lines 679-698: the toggle of the fields of one group, or None
parse_tokens(tokens) ==
    IF tokens_count_rejected(Len(tokens)) THEN None
    ELSE IF Len(tokens) = 3
    THEN IF ~isdigit(tokens[3]) THEN None
         ELSE toggle_of_tokens(tokens, int(tokens[3]))
    ELSE toggle_of_tokens(tokens, 0)

\* the loop of parse_resource_schedule over the groups
RECURSIVE parse_groups(_, _)
RECURSIVE parse_groups_after(_, _, _)
parse_groups(exprs, parsed) ==
    IF Len(exprs) = 0 THEN Some(parsed)
    ELSE parse_groups_after(
             parse_tokens(split(translate_delete(Head(exprs), {"(", ")"}), <<",">>)),
             Tail(exprs), parsed)

parse_groups_after(toggle, exprs, parsed) ==
    IF toggle.isNone THEN None ELSE parse_groups(exprs, Append(parsed, toggle.val))

\* ScheduleParser.parse_resource_schedule
parse_resource_schedule(lexeme) ==
    parse_groups(split(translate_delete(lexeme, {"[", "]"}), <<",", "(">>), <<>>)

\* the loop of parse over the pieces (lines 646-656): the schedule dict, or None
RECURSIVE parse_pieces(_, _)
RECURSIVE parse_piece(_, _, _)
RECURSIVE parse_piece_value(_, _, _, _)
parse_pieces(pieces, schedule) ==
    IF Len(pieces) = 0 THEN Some(schedule)
    ELSE parse_piece(split(Head(pieces), <<"=">>), Tail(pieces), schedule)

parse_piece(kv, pieces, schedule) ==
    IF Len(kv) # 2 THEN None
    ELSE parse_piece_value(kv[1],
                           IF kv[1] # TZ THEN parse_resource_schedule(kv[2])
                                         ELSE Some(kv[2]),
                           pieces, schedule)

parse_piece_value(key, value, pieces, schedule) ==
    IF value.isNone THEN None
    ELSE parse_pieces(pieces, dict_set(schedule, key, value.val))

\* schedule.get(TZ) is None: an empty tz counts as given
tz_absent(schedule) == TZ \notin DOMAIN schedule

\* schedule.get(TZ) is falsy: no tz, or an empty one
tz_missing(schedule) == TZ \notin DOMAIN schedule \/ Len(schedule[TZ]) = 0

\* lines 658-664 of parse caching the schedule with the default tz in place
\* of the tz the string names
parse_finish_cache_default_tz(p, tag_value, parsed) ==
    IF parsed.isNone THEN [ret |-> Returned(None), cache |-> p.cache]
    ELSE IF p.default_schedule.isNone
    THEN IF tz_missing(parsed.val)
         THEN [ret |-> Raised("TypeError"), cache |-> p.cache]
         ELSE [ret |-> Returned(parsed),
               cache |-> dict_set(p.cache, tag_value, parsed.val)]
    ELSE [ret |-> Returned(Some(IF tz_missing(parsed.val)
                                THEN dict_set(parsed.val, TZ,
                                              p.default_schedule.val[TZ])
                                ELSE parsed.val)),
          cache |-> dict_set(p.cache, tag_value,
                             dict_set(parsed.val, TZ, p.default_schedule.val[TZ]))]

\* lines 658-664 of parse: the default tz, the cache, the return
parse_finish(p, tag_value, parsed) ==
    IF parsed.isNone THEN [ret |-> Returned(None), cache |-> p.cache]
    ELSE IF ~tz_missing(parsed.val)
    THEN [ret |-> Returned(parsed), cache |-> dict_set(p.cache, tag_value, parsed.val)]
    ELSE IF p.default_schedule.isNone
    THEN [ret |-> Raised("TypeError"), cache |-> p.cache]
    ELSE [ret |-> Returned(Some(dict_set(parsed.val, TZ, p.default_schedule.val[TZ]))),
          cache |-> dict_set(p.cache, tag_value,
                             dict_set(parsed.val, TZ, p.default_schedule.val[TZ]))]

\* ScheduleParser.parse on a parser p = [default_schedule, cache]:
\* [ret: what the call returns or raises, cache: the cache after the call]
parse(p, tag_value) ==
    IF tag_value \in DOMAIN p.cache
    THEN [ret |-> Returned(Some(p.cache[tag_value])), cache |-> p.cache]
    ELSE IF ~keys_are_valid(tag_value)
    THEN [ret |-> Returned(None), cache |-> p.cache]
    ELSE parse_finish(p, tag_value,
                      parse_pieces(split(tag_value, <<";">>), EmptyDict))

(***************************************************************************)
(* The range view: ScheduleParser.parse_toggles and get_ranges.  An entry  *)
(* of a weekday's list is a dict with the keys RANGE_START and RANGE_END,  *)
(* either of which may be missing.                                         *)
(***************************************************************************)
\* datetime.datetime.strptime("%d:%d" % (hour, minute), "%H:%M").time()
strptime_time(hour, minute) ==
    IF hour \in 0..23 /\ minute \in 0..59
    THEN Returned(hour * 60 + minute)
    ELSE Raised("ValueError")

\* the body of the inner loop of parse_toggles, for one day
toggle_day(results, toggle_name, day, t) ==
    IF DOMAIN results = {} \/ day \notin DOMAIN results \/ Len(results[day]) = 0
    THEN dict_set(results, day,
                  (IF day \in DOMAIN results THEN results[day] ELSE <<>>)
                      \o <<(toggle_name :> t)>>)
    ELSE dict_set(results, day,
                  [k \in 1..Len(results[day]) |->
                      dict_set(results[day][k], toggle_name, t)])

\* the inner loop of parse_toggles, over the days of one toggle
RECURSIVE toggle_days(_, _, _, _)
toggle_days(days, toggle, toggle_name, results) ==
    IF Len(days) = 0 THEN Returned(results)
    ELSE IF strptime_time(toggle.hour, toggle.minute).raised
    THEN strptime_time(toggle.hour, toggle.minute)
    ELSE toggle_days(Tail(days), toggle, toggle_name,
                     toggle_day(results, toggle_name, Head(days),
                                strptime_time(toggle.hour, toggle.minute).val))

\* ScheduleParser.parse_toggles: the updated results, or the exception raised
RECURSIVE parse_toggles(_, _, _)
RECURSIVE parse_toggles_after(_, _, _)
parse_toggles(toggles, toggle_name, results) ==
    IF Len(toggles) = 0 THEN Returned(results)
    ELSE parse_toggles_after(
             toggle_days(Head(toggles).days, Head(toggles), toggle_name, results),
             Tail(toggles), toggle_name)

parse_toggles_after(r, toggles, toggle_name) ==
    IF r.raised THEN r ELSE parse_toggles(toggles, toggle_name, r.val)

\* line 632 of get_ranges, after the on toggles (line 631)
get_ranges_end(schedule, started) ==
    IF started.raised THEN started
    ELSE IF TT_OFF \notin DOMAIN schedule THEN Raised("KeyError")
    ELSE parse_toggles(schedule[TT_OFF], RANGE_END, started.val)

\* ScheduleParser.get_ranges
get_ranges(schedule) ==
    IF TT_ON \notin DOMAIN schedule THEN Raised("KeyError")
    ELSE get_ranges_end(schedule,
                        parse_toggles(schedule[TT_ON], RANGE_START, EmptyDict))

\* is_time_in_time_period without the branch for a period across midnight
is_time_in_time_period_same_day(start_time, end_time, qry_time) ==
    start_time <= qry_time /\ qry_time < end_time

\* Time.is_time_in_time_period
is_time_in_time_period(start_time, end_time, qry_time) ==
    IF start_time < end_time
    THEN start_time <= qry_time /\ qry_time < end_time
    ELSE qry_time >= start_time \/ qry_time < end_time

\* the loop of match_range over the entries of the weekday
RECURSIVE match_entries(_, _)
match_entries(rs, qry_time) ==
    IF Len(rs) = 0 THEN Returned(FALSE)
    ELSE IF RANGE_START \notin DOMAIN Head(rs) THEN Raised("KeyError")
    ELSE IF RANGE_END \notin DOMAIN Head(rs) THEN Raised("KeyError")
    ELSE IF is_time_in_time_period(Head(rs)[RANGE_START], Head(rs)[RANGE_END],
                                   qry_time)
         THEN Returned(TRUE)
         ELSE match_entries(Tail(rs), qry_time)

\* Time.match_range
match_range(now, ranged_schedule) ==
    IF weekday(now) \notin DOMAIN ranged_schedule THEN Returned(FALSE)
    ELSE match_entries(ranged_schedule[weekday(now)], time_of(now))

(***************************************************************************)
(* The filter classes: Time, BaseHour, OnHour, OffHour of offhours.py and  *)
(* BusinessHours of businesshours.py.  A filter instance is a record; the  *)
(* configuration mapping `data` is a dict from option names to values.     *)
(***************************************************************************)
Classes == {"OnHour", "OffHour", "BusinessHours"}

\* data.get(key, default)
data_get(d, key, default) == IF key \in DOMAIN d THEN d[key] ELSE default

\* the class attribute time_type
time_type_of(cls) == IF cls = "OffHour" THEN TT_OFF ELSE TT_ON

\* the class attributes DEFAULT_TAG and DEFAULT_TZ
default_tag_of(cls) ==
    IF cls = "BusinessHours"
    THEN <<"B", "u", "s", "i", "n", "e", "s", "s", "H", "o", "u", "r", "s">>
    ELSE DEFAULT_TAG

default_tz_of(cls) == IF cls = "BusinessHours" THEN <<"p", "t">> ELSE DEFAULT_TZ

\* BusinessHours.DEFAULT_BUSINESSHOURS, "8:00-18:00 PT"
DEFAULT_BUSINESSHOURS ==
    <<"8", ":", "0", "0", "-", "1", "8", ":", "0", "0", " ", "P", "T">>

\* BaseHour.DEFAULTS
DEFAULTS(time_type) ==
    IF time_type = TT_ON THEN [hour |-> 7, minute |-> 0]
                         ELSE [hour |-> 19, minute |-> 0]

\* "%shour" % time_type and "%sminute" % time_type, for on and off
hour_key(time_type) == IF time_type = TT_ON THEN "onhour" ELSE "offhour"
minute_key(time_type) == IF time_type = TT_ON THEN "onminute" ELSE "offminute"

\* Time.inverse_time_type (time_type is on or off for the classes modelled)
inverse_time_type(time_type) == IF time_type = TT_ON THEN TT_OFF ELSE TT_ON

\* BaseHour.get_time_struct
get_time_struct(d, time_type) ==
    <<[hour |-> data_get(d, hour_key(time_type), DEFAULTS(time_type).hour),
       minute |-> data_get(d, minute_key(time_type), DEFAULTS(time_type).minute),
       days |-> IF data_get(d, "weekends-only", FALSE) THEN <<4>>
                ELSE IF data_get(d, "weekends", TRUE) THEN range(0, 5)
                ELSE range(0, 7)]>>

\* BaseHour.get_default_schedule, and BusinessHours.get_default_schedule (None)
get_default_schedule(cls, d) ==
    IF cls = "BusinessHours" THEN None
    ELSE Some((TZ :> data_get(d, "default_tz", default_tz_of(cls))) @@
              (time_type_of(cls) :> get_time_struct(d, time_type_of(cls))) @@
              (inverse_time_type(time_type_of(cls)) :>
                   get_time_struct(d, inverse_time_type(time_type_of(cls)))))

\* Time.__init__ followed by BusinessHours.__init__: the instance constructed.
\* `validated` is the instance's place in the policy's life: "no" until the
\* framework has called validate(), then "ok" or the error raised.
Time_init(cls, d) ==
    [cls |-> cls,
     time_type |-> time_type_of(cls),
     default_tz |-> data_get(d, "default_tz", default_tz_of(cls)),
     weekends |-> data_get(d, "weekends", TRUE),
     weekends_only |-> data_get(d, "weekends-only", FALSE),
     opt_out |-> data_get(d, "opt-out", cls = "BusinessHours"),
     tag_key |-> lower(data_get(d, "tag", default_tag_of(cls))),
     default_schedule |-> get_default_schedule(cls, d),
     parser |-> [default_schedule |-> get_default_schedule(cls, d),
                 cache |-> EmptyDict],
     id_key |-> None,
     opted_out |-> <<>>,
     parse_errors |-> <<>>,
     enabled_count |-> 0,
     validated |-> "no"]

\* Time.validate and BusinessHours.validate: "ok" (returns self) or the
\* FilterValidationError raised
validate(self, d) ==
    IF self.cls = "BusinessHours"
    THEN IF Len(data_get(d, "businesshours", DEFAULT_BUSINESSHOURS)) = 0
         THEN "FilterValidationError" ELSE "ok"
    ELSE IF get_tz(self.default_tz).isNone THEN "FilterValidationError"
    ELSE IF data_get(d, hour_key(self.time_type), DEFAULTS(self.time_type).hour)
                \notin VALID_HOURS
         THEN "FilterValidationError"
    ELSE IF data_get(d, minute_key(self.time_type), DEFAULTS(self.time_type).minute)
                \notin VALID_MINUTES
         THEN "FilterValidationError"
    ELSE "ok"

\* the loop of get_tag_value: the value of the first tag whose lowercased
\* key is tag_key; None stands for the False of `found = False`
RECURSIVE find_tag(_, _)
find_tag(tags, tag_key) ==
    IF Len(tags) = 0 THEN None
    ELSE IF lower(Head(tags).Key) = tag_key THEN Some(Head(tags).Value)
    ELSE find_tag(Tail(tags), tag_key)

\* get_tag_value without the strip of the quotes
normalize_found_quoted(found) ==
    IF found.isNone THEN None ELSE Some(lower(found.val))

\* lines 415-422 of get_tag_value
normalize_found(found) ==
    IF found.isNone THEN None
    ELSE Some(strip(strip(lower(found.val), "'"), "\""))

\* Time.get_tag_value
get_tag_value(self, i) ==
    normalize_found(find_tag(IF "Tags" \in DOMAIN i THEN i.Tags ELSE <<>>,
                             self.tag_key))

(***************************************************************************)
(* The per-resource evaluation.  An evaluation returns, besides what the   *)
(* code returns and the fields it updates, the values of the locals the    *)
(* properties speak of: the normalized value, the schedule of step 5, the  *)
(* zone, now, the range view and the outcome of match_range.               *)
(***************************************************************************)
frame(ret, parse_errors, cache, value, schedule, zone, now, ranged, matched) ==
    [ret |-> ret, parse_errors |-> parse_errors, cache |-> cache,
     value |-> value, schedule |-> schedule, zone |-> zone, now |-> now,
     ranged |-> ranged, matched |-> matched]

NoFrame == frame(Returned(FALSE), <<>>, EmptyDict, None, None, None, None, None, None)

\* lines 352-361 without the tz of the tag
default_for_default_tz(self, value, raw) == Returned(self.default_schedule)

\* lines 352-361: the schedule of a value without a schedule of time_type,
\* None included, or the exception raised
default_for(self, value, raw) ==
    IF TZ \in DOMAIN raw
    THEN IF self.default_schedule.isNone THEN Raised("TypeError")
         ELSE Returned(Some(dict_set(self.default_schedule.val, TZ, raw[TZ])))
    ELSE Returned(self.default_schedule)

\* lines 350-361: [ret: what the branches leave in `schedule`, or the
\* exception raised; cache: the parser's cache afterwards]
build_schedule(self, value, time_type) ==
    IF has_resource_schedule(value, time_type)
    THEN parse(self.parser, value)
    ELSE IF keys_are_valid(value)
    THEN [ret |-> default_for(self, value, raw_data(value)),
          cache |-> self.parser.cache]
    ELSE [ret |-> Returned(None), cache |-> self.parser.cache]

\* lines 380-383 without the negation for time_type off
decide_as_on(time_type, matched_range) == matched_range

\* lines 380-383: the boolean returned for the outcome of match_range
decide(time_type, matched_range) ==
    IF matched_range.raised THEN matched_range
    ELSE IF time_type = TT_ON THEN matched_range
    ELSE Returned(~matched_range.val)

\* lines 379-383, the range view being built (or get_ranges having raised)
evaluate_matched(self, fr, matched_range) ==
    [fr EXCEPT !.ret = decide(self.time_type, matched_range),
               !.matched = Some(matched_range)]

evaluate_ranged(self, fr, now, ranged_schedule) ==
    IF ranged_schedule.raised
    THEN [fr EXCEPT !.ret = ranged_schedule, !.ranged = Some(ranged_schedule)]
    ELSE evaluate_matched(self, [fr EXCEPT !.ranged = Some(ranged_schedule)],
                          match_range(now, ranged_schedule.val))

\* lines 369-383 without the append to parse_errors for an unresolved tz
evaluate_zone_unrecorded(self, i, fr, schedule, tz, instant) ==
    IF tz.isNone
    THEN [fr EXCEPT !.ret = Returned(FALSE)]
    ELSE evaluate_ranged(self,
                         [fr EXCEPT !.zone = tz,
                                    !.now = Some(now_in(tz.val, instant))],
                         now_in(tz.val, instant), get_ranges(schedule))

\* lines 369-383, the schedule being known: fr holds the value, the
\* schedule and the fields as they are so far
evaluate_zone(self, i, fr, schedule, tz, instant) ==
    IF tz.isNone
    THEN [fr EXCEPT !.ret = Returned(FALSE),
                    !.parse_errors = Append(@, <<i.InstanceId, fr.value>>)]
    ELSE evaluate_ranged(self,
                         [fr EXCEPT !.zone = tz,
                                    !.now = Some(now_in(tz.val, instant))],
                         now_in(tz.val, instant), get_ranges(schedule))

\* lines 363-383, `schedule` being assigned
evaluate_built(self, i, value, built, instant) ==
    IF built.ret.raised
    THEN frame(built.ret, self.parse_errors, built.cache, value, None, None,
               None, None, None)
    ELSE IF built.ret.val.isNone
    THEN frame(Returned(FALSE),
               Append(self.parse_errors, <<i.InstanceId, value>>),
               built.cache, value, None, None, None, None, None)
    ELSE evaluate_zone(self, i,
                       frame(Returned(FALSE), self.parse_errors, built.cache,
                             value, built.ret.val, None, None, None, None),
                       built.ret.val.val, get_tz(built.ret.val.val[TZ]), instant)

\* lines 350-383, the value being normalized
evaluate_value(self, i, value, time_type, instant) ==
    evaluate_built(self, i, value, build_schedule(self, value, time_type), instant)

\* Time.process_resource_schedule
Time_process_resource_schedule(self, i, value, time_type, instant) ==
    evaluate_value(self, i, join(<<";">>, filter_none(split(value, <<";">>))),
                   time_type, instant)

\* BusinessHours.parse.  The comprehension makes of every space separated
\* piece s the pair (s[0], s[1].lower()): IndexError for a piece shorter
\* than two characters.  Unpacking into bh_range, bh_tz raises ValueError,
\* turned into FilterValidationError, unless there are exactly two pieces.
\* bh_range is then a tuple, and bh_range.split raises AttributeError.
bh_parse_pieces(pieces) ==
    IF \E k \in 1..Len(pieces) : Len(pieces[k]) < 2 THEN Raised("IndexError")
    ELSE IF Len(pieces) # 2 THEN Raised("FilterValidationError")
    ELSE Raised("AttributeError")

BusinessHours_parse(tag_value) == bh_parse_pieces(split(tag_value, <<" ">>))

\* lines 80-88 of BusinessHours.process_resource_schedule, after parse
bh_after_parse(self, value, bh_parsed) ==
    frame(IF bh_parsed.raised THEN bh_parsed ELSE Returned(FALSE),
          self.parse_errors, self.parser.cache, value, None, None, None,
          None, None)

\* BusinessHours.process_resource_schedule
BusinessHours_process_resource_schedule(self, i, value, time_type, instant) ==
    bh_after_parse(self, value, BusinessHours_parse(value))

\* the method the instance's class binds to process_resource_schedule
process_resource_schedule(self, i, value, time_type, instant) ==
    IF self.cls = "BusinessHours"
    THEN BusinessHours_process_resource_schedule(self, i, value, time_type, instant)
    ELSE Time_process_resource_schedule(self, i, value, time_type, instant)

\* what one __call__ saw; ret is what it returned or raised
observation(i, instant, tag, step, f, ret) ==
    [rid |-> i.InstanceId, instant |-> instant, tag |-> tag, step |-> step,
     value |-> f.value,
     schedule |-> f.schedule, zone |-> f.zone, now |-> f.now,
     ranged |-> f.ranged, matched |-> f.matched,
     exc |-> IF f.ret.raised THEN f.ret.exc ELSE "", ret |-> ret]

\* __call__ without the try ... except: the exception leaves the call
try_unguarded(ret) == ret

\* the try ... except: of __call__ (lines 335-341): whatever is raised is
\* logged and False is returned
try_except(ret) == IF ret.raised THEN Returned(FALSE) ELSE ret

\* lines 335-341 of __call__, process_resource_schedule having run
call_return(self, i, instant, found, f) ==
    [self |-> [self EXCEPT !.parse_errors = f.parse_errors,
                           !.parser.cache = f.cache],
     ret |-> try_except(f.ret),
     obs |-> observation(i, instant, found, "scheduled",
                         [f EXCEPT !.value = Some(@)],
                         try_except(f.ret))]

\* lines 328-341 of __call__ without the count of the enabled resources
call_value_uncounted(self, i, found, value, instant) ==
    IF TT_OFF = value
    THEN [self |-> [self EXCEPT !.opted_out = Append(@, i)],
          ret |-> Returned(FALSE),
          obs |-> observation(i, instant, found, "opted_out",
                              [NoFrame EXCEPT !.value = Some(value)],
                              Returned(FALSE))]
    ELSE call_return(self, i, instant, found,
                     process_resource_schedule(self, i, value, self.time_type,
                                               instant))

\* lines 328-341 of __call__, on the value of the tag (or the default)
call_value(self, i, found, value, instant) ==
    IF TT_OFF = value
    THEN [self |-> [self EXCEPT !.opted_out = Append(@, i)],
          ret |-> Returned(FALSE),
          obs |-> observation(i, instant, found, "opted_out",
                              [NoFrame EXCEPT !.value = Some(value)],
                              Returned(FALSE))]
    ELSE call_return([self EXCEPT !.enabled_count = @ + 1], i, instant, found,
                     process_resource_schedule(
                         [self EXCEPT !.enabled_count = @ + 1], i, value,
                         self.time_type, instant))

\* __call__ without opt-out: a resource without the tag is never evaluated
call_found_opt_in(self, i, found, instant) ==
    IF found.isNone
    THEN [self |-> self, ret |-> Returned(FALSE),
          obs |-> observation(i, instant, found, "no_tag", NoFrame,
                              Returned(FALSE))]
    ELSE call_value(self, i, found, found.val, instant)

\* lines 317-341 of __call__, on what get_tag_value returned
call_found(self, i, found, instant) ==
    IF found.isNone /\ ~self.opt_out
    THEN [self |-> self, ret |-> Returned(FALSE),
          obs |-> observation(i, instant, found, "no_tag", NoFrame,
                              Returned(FALSE))]
    ELSE call_value(self, i, found, IF found.isNone THEN <<>> ELSE found.val,
                    instant)

\* Time.__call__: [self: the instance after the call, ret: the boolean
\* returned (or the exception that leaves the call), obs: what the call saw]
call(self, i, instant) ==
    call_found([self EXCEPT !.id_key = IF @.isNone THEN Some("InstanceId") ELSE @],
               i, get_tag_value(self, i), instant)

\* Filter.process of the framework: the resources the filter returns True
\* for, in their order; [self, ret: the list or the exception, obs: of the
\* last resource evaluated]
RECURSIVE filter_resources(_, _, _, _, _)
RECURSIVE filter_resources_after(_, _, _, _, _)
filter_resources(self, resources, instant, kept, obs) ==
    IF Len(resources) = 0 THEN [self |-> self, ret |-> Returned(kept), obs |-> obs]
    ELSE filter_resources_after(call(self, Head(resources), instant),
                                Head(resources), Tail(resources), instant, kept)

filter_resources_after(c, i, resources, instant, kept) ==
    IF c.ret.raised THEN c
    ELSE filter_resources(c.self, resources, instant,
                          IF c.ret.val THEN Append(kept, i) ELSE kept, c.obs)

\* lines 299-304 of process: the dump of parse_errors
dump_parse_errors(st) ==
    IF Len(st.self.parse_errors) > 0 /\ st.manager.present /\ st.manager.log_dir
    THEN [st EXCEPT !.self.parse_errors = <<>>,
                    !.manager.parse_errors_json = Some(st.self.parse_errors)]
    ELSE st

\* lines 305-310 of process: the dump of opted_out
dump_opted_out(st) ==
    IF Len(st.self.opted_out) > 0 /\ st.manager.present /\ st.manager.log_dir
    THEN [st EXCEPT !.self.opted_out = <<>>,
                    !.manager.opted_out_json = Some(st.self.opted_out)]
    ELSE st

\* lines 299-311 of process, the resources being filtered
process_after(done, mgr) ==
    IF done.ret.raised
    THEN [self |-> done.self, manager |-> mgr, ret |-> done.ret, obs |-> done.obs]
    ELSE dump_opted_out(dump_parse_errors(
             [self |-> done.self, manager |-> mgr, ret |-> done.ret,
              obs |-> done.obs]))

\* Time.process: [self, manager, ret, obs]
process(self, mgr, resources, instant, obs0) ==
    process_after(filter_resources(self, resources, instant, <<>>, obs0), mgr)

(***************************************************************************)
(* The tag values and resources the filters are run on.                    *)
(***************************************************************************)
\* (the empty string)
V_empty ==
    <<>>

\* "OFF"
V_off_quoted ==
    <<"\"", "O", "F", "F", "\"">>

\* off=(m-f,19);on=(m-f,7);tz=pt;
V_full ==
    <<"o", "f", "f", "=", "(", "m", "-", "f", ",", "1", "9", ")", ";", "o",
      "n", "=", "(", "m", "-", "f", ",", "7", ")", ";", "t", "z", "=", "p",
      "t", ";">>

\* on=(m-f,22);off=(m-f,6)
V_night ==
    <<"o", "n", "=", "(", "m", "-", "f", ",", "2", "2", ")", ";", "o", "f",
      "f", "=", "(", "m", "-", "f", ",", "6", ")">>

\* on=(m-f,7);off=(m-h,19);tz=pt
V_open_friday ==
    <<"o", "n", "=", "(", "m", "-", "f", ",", "7", ")", ";", "o", "f", "f",
      "=", "(", "m", "-", "h", ",", "1", "9", ")", ";", "t", "z", "=", "p",
      "t">>

\* on=(m-f,7)
V_on_only ==
    <<"o", "n", "=", "(", "m", "-", "f", ",", "7", ")">>

\* tz=pt
V_tz_pt ==
    <<"t", "z", "=", "p", "t">>

\* tz=pt;foo=bar
V_tz_unknown_key ==
    <<"t", "z", "=", "p", "t", ";", "f", "o", "o", "=", "b", "a", "r">>

\* off=(m-f,19);on=(m-f,7);tz=zz
V_bad_tz ==
    <<"o", "f", "f", "=", "(", "m", "-", "f", ",", "1", "9", ")", ";", "o",
      "n", "=", "(", "m", "-", "f", ",", "7", ")", ";", "t", "z", "=", "z",
      "z">>

\* on=(m-f);off=(m-f,19)
V_one_field ==
    <<"o", "n", "=", "(", "m", "-", "f", ")", ";", "o", "f", "f", "=", "(",
      "m", "-", "f", ",", "1", "9", ")">>

\* on=(m-f,7,30,15);off=(m-f,19)
V_four_fields ==
    <<"o", "n", "=", "(", "m", "-", "f", ",", "7", ",", "3", "0", ",", "1",
      "5", ")", ";", "o", "f", "f", "=", "(", "m", "-", "f", ",", "1", "9",
      ")">>

\* on=[(m,8),(m,14)];off=[(m,12),(m,18)]
V_two_pairs ==
    <<"o", "n", "=", "[", "(", "m", ",", "8", ")", ",", "(", "m", ",", "1",
      "4", ")", "]", ";", "o", "f", "f", "=", "[", "(", "m", ",", "1", "2",
      ")", ",", "(", "m", ",", "1", "8", ")", "]">>

\* 8:00-18:00 PT
V_business ==
    <<"8", ":", "0", "0", "-", "1", "8", ":", "0", "0", " ", "P", "T">>

K_maid == <<"M", "a", "i", "d", "_", "O", "f", "f", "H", "o", "u", "r", "s">>

K_business == <<"B", "u", "s", "i", "n", "e", "s", "s", "H", "o", "u", "r", "s">>

K_name == <<"N", "a", "m", "e">>

tagged(id, value) == [InstanceId |-> id, Tags |-> <<[Key |-> K_maid, Value |-> value]>>]

R_untagged == [InstanceId |-> "i-00"]
R_other_tag == [InstanceId |-> "i-01", Tags |-> <<[Key |-> K_name, Value |-> V_full]>>]
R_empty == tagged("i-02", V_empty)
R_off == tagged("i-03", V_off_quoted)
R_full ==
    [InstanceId |-> "i-04",
     Tags |-> <<[Key |-> K_name, Value |-> V_off_quoted],
                [Key |-> K_maid, Value |-> V_full],
                [Key |-> K_business, Value |-> V_business]>>]
R_night == tagged("i-05", V_night)
R_open_friday == tagged("i-06", V_open_friday)
R_on_only == tagged("i-07", V_on_only)
R_tz_pt == tagged("i-08", V_tz_pt)
R_tz_unknown_key == tagged("i-09", V_tz_unknown_key)
R_bad_tz == tagged("i-10", V_bad_tz)
R_one_field == tagged("i-11", V_one_field)
R_four_fields == tagged("i-12", V_four_fields)
R_two_pairs == tagged("i-13", V_two_pairs)

Resources ==
    {R_untagged, R_other_tag, R_empty, R_off, R_full, R_night, R_open_friday,
     R_on_only, R_tz_pt, R_tz_unknown_key, R_bad_tz, R_one_field, R_four_fields,
     R_two_pairs}

\* the resource lists a pass is run on
Batches ==
    {<<>>, <<R_off, R_bad_tz, R_full>>, <<R_on_only, R_tz_unknown_key, R_untagged>>}

\* minute of the UTC week, Monday 00:00 being 0
at(day, hour, minute) == day * MinutesPerDay + hour * 60 + minute

\* the instants the clock goes through: Wed 17:00, Thu 01:00, Thu 06:30,
\* Fri 20:00 and Sat 15:00 UTC
Instants == <<at(2, 17, 0), at(3, 1, 0), at(3, 6, 30), at(4, 20, 0), at(5, 15, 0)>>

\* the policies a run starts from: per filter the configuration it is
\* constructed with, and the manager the framework gives the filters
NoManager == [present |-> FALSE, log_dir |-> FALSE,
              parse_errors_json |-> None, opted_out_json |-> None]
Manager(log_dir) == [present |-> TRUE, log_dir |-> log_dir,
                     parse_errors_json |-> None, opted_out_json |-> None]

Policies ==
    {[data |-> ("OnHour" :> ("default_tz" :> <<"e", "t">>)),
      manager |-> NoManager],
     [data |-> ("OffHour" :> ([default_tz |-> <<"p", "t">>, offhour |-> 18,
                               weekends |-> FALSE] @@ ("opt-out" :> TRUE))),
      manager |-> Manager(TRUE)],
     [data |-> ("OnHour" :> ([default_tz |-> <<"e", "t">>, onhour |-> 8,
                              onminute |-> 30, offhour |-> 20]
                             @@ ("opt-out" :> TRUE)))
               @@ ("OffHour" :> ([default_tz |-> <<"e", "t">>, onhour |-> 8,
                                  onminute |-> 30, offhour |-> 20]
                                 @@ ("opt-out" :> TRUE))),
      manager |-> Manager(TRUE)],
     [data |-> ("OnHour" :> ([onhour |-> 8] @@ ("weekends-only" :> TRUE)))
               @@ ("OffHour" :> ([offhour |-> 18] @@ ("weekends-only" :> TRUE))),
      manager |-> Manager(FALSE)],
     [data |-> ("BusinessHours" :> EmptyDict),
      manager |-> Manager(TRUE)],
     [data |-> ("OnHour" :> ([default_tz |-> <<"G", "M", "T">>, offhour |-> 25]
                             @@ ("opt-out" :> TRUE))),
      manager |-> NoManager],
     [data |-> ("OnHour" :> [onhour |-> 24])
               @@ ("OffHour" :> [default_tz |-> <<"z", "z">>])
               @@ ("BusinessHours" :> [businesshours |-> <<>>]),
      manager |-> NoManager]}

(***************************************************************************)
(* The filters of a policy: constructed, validated at policy load, then    *)
(* called by the framework, one resource at a time or in passes.           *)
(***************************************************************************)
MaxCalls == 2

\* last[n]: the last operation on filter n (seq: its number among the calls
\* of the run), what it returned and what its last evaluation saw
NoObservation ==
    [op |-> "none", seq |-> 0, batch |-> <<>>, out |-> Returned(<<>>),
     obs |-> observation([InstanceId |-> ""], 0, None, "none", NoFrame,
                         Returned(FALSE))]

\* a parser on its own, for the properties of ScheduleParser.parse
NoParse ==
    [called |-> FALSE, tag_value |-> <<>>, ret |-> Returned(None), hit |-> FALSE]
IdleParser == [default_schedule |-> None, cache |-> EmptyDict]

Init ==
    /\ \E p \in Policies :
          /\ data = p.data
          /\ manager = p.manager
          /\ flt = [n \in DOMAIN p.data |-> Time_init(n, p.data[n])]
          /\ last = [n \in DOMAIN p.data |-> NoObservation]
    /\ clock = 1
    /\ ncalls = 0
    /\ parser = IdleParser
    /\ plast = NoParse

\* policy load: the framework calls validate() on a constructed filter
Validate(n) ==
    /\ flt[n].validated = "no"
    /\ flt' = [flt EXCEPT ![n].validated = validate(flt[n], data[n])]
    /\ UNCHANGED <<data, manager, clock, last, ncalls, parser, plast>>

\* the filter is called on one resource
Call(n, i) ==
    /\ flt[n].validated = "ok"
    /\ ncalls < MaxCalls
    /\ \E c \in {call(flt[n], i, Instants[clock])} :
           /\ flt' = [flt EXCEPT ![n] = c.self]
           /\ last' = [last EXCEPT ![n] = [op |-> "call", seq |-> ncalls + 1,
                                           batch |-> <<i>>,
                                           out |-> Returned(<<>>),
                                           obs |-> c.obs]]
    /\ ncalls' = ncalls + 1
    /\ UNCHANGED <<data, manager, clock, parser, plast>>

\* a top-level pass of the filter over a resource list
Process(n, resources) ==
    /\ flt[n].validated = "ok"
    /\ ncalls < MaxCalls
    /\ \E r \in {process(flt[n], manager, resources, Instants[clock],
                          last[n].obs)} :
           /\ flt' = [flt EXCEPT ![n] = r.self]
           /\ manager' = r.manager
           /\ last' = [last EXCEPT ![n] = [op |-> "process", seq |-> ncalls + 1,
                                           batch |-> resources,
                                           out |-> r.ret,
                                           obs |-> r.obs]]
    /\ ncalls' = ncalls + 1
    /\ UNCHANGED <<data, clock, parser, plast>>

\* time passes
Tick ==
    /\ clock < Len(Instants)
    /\ clock' = clock + 1
    /\ UNCHANGED <<data, manager, flt, last, ncalls, parser, plast>>

Next ==
    \/ \E n \in DOMAIN flt : Validate(n)
    \/ \E n \in DOMAIN flt : \E i \in Resources : Call(n, i)
    \/ \E n \in DOMAIN flt : \E resources \in Batches : Process(n, resources)
    \/ Tick

Spec == Init /\ [][Next]_vars

(***************************************************************************)
(* ScheduleParser.parse on its own: a parser as a filter constructs it,    *)
(* called on strings one after the other (the cache carries over).         *)
(***************************************************************************)
\* on=(m-f,7,30);off=(m-f,19,45)
P_minutes ==
    <<"o", "n", "=", "(", "m", "-", "f", ",", "7", ",", "3", "0", ")",
      ";", "o", "f", "f", "=", "(", "m", "-", "f", ",", "1", "9", ",",
      "4", "5", ")">>

\* on=(f-m,7);off=(s,9)
P_wrap ==
    <<"o", "n", "=", "(", "f", "-", "m", ",", "7", ")", ";", "o", "f",
      "f", "=", "(", "s", ",", "9", ")">>

\* on=(m-f,24);off=(m-f,19)
P_hour_24 ==
    <<"o", "n", "=", "(", "m", "-", "f", ",", "2", "4", ")", ";", "o",
      "f", "f", "=", "(", "m", "-", "f", ",", "1", "9", ")">>

\* on=(m-f,7,61)
P_minute_61 ==
    <<"o", "n", "=", "(", "m", "-", "f", ",", "7", ",", "6", "1", ")">>

\* on=(x,7);off=(m-f,19)
P_bad_day ==
    <<"o", "n", "=", "(", "x", ",", "7", ")", ";", "o", "f", "f", "=",
      "(", "m", "-", "f", ",", "1", "9", ")">>

\* tz=zz
P_tz_zz ==
    <<"t", "z", "=", "z", "z">>

\* on=(m,7);tz=
P_empty_tz ==
    <<"o", "n", "=", "(", "m", ",", "7", ")", ";", "t", "z", "=">>

\* foo=bar
P_unknown_key ==
    <<"f", "o", "o", "=", "b", "a", "r">>

\* off=[(m-f,19),(s)]
P_no_hour ==
    <<"o", "f", "f", "=", "[", "(", "m", "-", "f", ",", "1", "9", ")",
      ",", "(", "s", ")", "]">>

\* off=(m-f,19,0,0,0);tz=et
P_five_fields ==
    <<"o", "f", "f", "=", "(", "m", "-", "f", ",", "1", "9", ",", "0",
      ",", "0", ",", "0", ")", ";", "t", "z", "=", "e", "t">>

\* the strings parse is called on
ParseInputs ==
    {V_empty, V_off_quoted, V_full, V_night, V_open_friday, V_on_only, V_tz_pt,
     V_tz_unknown_key, V_bad_tz, V_one_field, V_four_fields, V_two_pairs,
     V_business, P_minutes, P_wrap, P_hour_24, P_minute_61, P_bad_day, P_tz_zz,
     P_empty_tz, P_unknown_key, P_no_hour, P_five_fields}

\* the parsers Time.__init__ constructs (line 283): of an OnHour filter, of
\* an OffHour filter in another zone, and of a BusinessHours filter, whose
\* default schedule is None
Parsers ==
    {Time_init("OnHour", EmptyDict).parser,
     Time_init("OffHour", [default_tz |-> <<"p", "t">>, offhour |-> 18]).parser,
     Time_init("BusinessHours", EmptyDict).parser}

MaxParseCalls == 2

InitParse ==
    /\ data = EmptyDict
    /\ manager = NoManager
    /\ flt = EmptyDict
    /\ last = EmptyDict
    /\ clock = 1
    /\ ncalls = 0
    /\ parser \in Parsers
    /\ plast = NoParse

\* parse(s) is called on the parser
ParseCall(s) ==
    /\ ncalls < MaxParseCalls
    /\ \E r \in {parse(parser, s)} :
           /\ parser' = [parser EXCEPT !.cache = r.cache]
           /\ plast' = [called |-> TRUE, tag_value |-> s, ret |-> r.ret,
                        hit |-> s \in DOMAIN parser.cache]
    /\ ncalls' = ncalls + 1
    /\ UNCHANGED <<data, manager, flt, clock, last>>

NextParse == \E s \in ParseInputs : ParseCall(s)

SpecParse == InitParse /\ [][NextParse]_vars

(***************************************************************************)
(* Properties.  last[n].obs is what the last evaluation by filter n saw:   *)
(* the normalized value, the schedule of step 5, the zone, now, the range  *)
(* view, the outcome of match_range, the exception caught and the boolean  *)
(* returned.                                                               *)
(***************************************************************************)
TimeFilters == {n \in DOMAIN flt : flt[n].cls \in {"OnHour", "OffHour"}}

\* the last evaluation by filter n went through process_resource_schedule
Scheduled(n) == last[n].obs.step = "scheduled"

\* ... and built a range view
Ranged(n) ==
    /\ Scheduled(n)
    /\ ~last[n].obs.ranged.isNone
    /\ ~last[n].obs.ranged.val.raised

RangeViewOf(n) == last[n].obs.ranged.val.val
NowOf(n) == last[n].obs.now.val

\* an entry of the range view that has a start and an end is an interval
IsInterval(e) == RANGE_START \in DOMAIN e /\ RANGE_END \in DOMAIN e

\* q lies in the interval e: start <= q < end, or, for an interval that
\* crosses midnight, q >= start or q < end
Contains(e, q) ==
    IF e[RANGE_START] < e[RANGE_END]
    THEN e[RANGE_START] <= q /\ q < e[RANGE_END]
    ELSE q >= e[RANGE_START] \/ q < e[RANGE_END]

\* now's weekday has an interval in the view and now's time of day lies in
\* one of that day's intervals
InWindow(view, now) ==
    /\ weekday(now) \in DOMAIN view
    /\ \E k \in 1..Len(view[weekday(now)]) :
           /\ IsInterval(view[weekday(now)][k])
           /\ Contains(view[weekday(now)][k], time_of(now))

\* every entry of now's weekday is an interval (the weekday may have none)
Paired(view, now) ==
    weekday(now) \in DOMAIN view =>
        \A k \in 1..Len(view[weekday(now)]) : IsInterval(view[weekday(now)][k])

\* what the claim expects filter n to return for the view and now
Expected(n) ==
    IF flt[n].time_type = TT_ON THEN InWindow(RangeViewOf(n), NowOf(n))
                                ELSE ~InWindow(RangeViewOf(n), NowOf(n))

\* C1 as claimed: whenever the evaluation has a schedule, a zone and a range
\* view, OnHour returns true exactly when now lies in an interval of its
\* weekday and OffHour exactly when it does not.
C1_AsClaimed ==
    \A n \in TimeFilters :
        Ranged(n) => last[n].obs.ret = Returned(Expected(n))

\* C1: when the range view is built and every entry of now's weekday has a
\* start and an end, OnHour returns true exactly when now lies in one of the
\* weekday's intervals (start <= q < end, or q >= start or q < end across
\* midnight) and OffHour exactly when it does not, uncovered weekdays
\* included; when an entry lacks its start or its end, or the range view
\* cannot be built, OnHour and OffHour both return no-match.
C1_MatchIsMembership ==
    \A n \in TimeFilters :
        /\ (Ranged(n) /\ Paired(RangeViewOf(n), NowOf(n)))
               => last[n].obs.ret = Returned(Expected(n))
        /\ (Ranged(n) /\ ~Paired(RangeViewOf(n), NowOf(n)))
               => last[n].obs.ret = Returned(FALSE)
        /\ (Scheduled(n) /\ ~last[n].obs.zone.isNone /\ ~Ranged(n))
               => last[n].obs.ret = Returned(FALSE)

\* an OnHour filter matched inside an interval that crosses midnight, and an
\* OffHour filter matched on a weekday the schedule does not cover
C1_Witness ==
    /\ \E n \in TimeFilters :
           /\ Ranged(n) /\ flt[n].time_type = TT_ON
           /\ last[n].obs.ret = Returned(TRUE)
           /\ \E k \in 1..Len(RangeViewOf(n)[weekday(NowOf(n))]) :
                  LET e == RangeViewOf(n)[weekday(NowOf(n))][k]
                  IN  IsInterval(e) /\ e[RANGE_START] > e[RANGE_END]
    /\ \E n \in TimeFilters :
           /\ Ranged(n) /\ flt[n].time_type = TT_OFF
           /\ weekday(NowOf(n)) \notin DOMAIN RangeViewOf(n)
           /\ last[n].obs.ret = Returned(TRUE)

\* the resource the filter was called on in this step, n being the filter
CalledOn(n) ==
    /\ ncalls' = ncalls + 1
    /\ last'[n].op = "call"
    /\ last'[n].seq = ncalls + 1

TagsOf(i) == IF "Tags" \in DOMAIN i THEN i.Tags ELSE <<>>

\* i has no tag whose key equals the filter's tag_key, case-insensitively
HasNoTag(self, i) ==
    \A k \in 1..Len(TagsOf(i)) : lower(TagsOf(i)[k].Key) # self.tag_key

\* the otherwise identical resource whose tag is present with an empty value
WithEmptyTag(self, i) ==
    [InstanceId |-> i.InstanceId,
     Tags |-> TagsOf(i) \o <<[Key |-> self.tag_key, Value |-> <<>>]>>]

\* C2: a call on a resource without the tag returns no-match when opt_out is
\* false, and when opt_out is true returns what the same filter returns at
\* the same instant for the same resource carrying the tag with an empty
\* value.
C2_NoTag ==
    [][\A n \in DOMAIN flt :
          (CalledOn(n) /\ HasNoTag(flt[n], last'[n].batch[1])) =>
              IF ~flt[n].opt_out
              THEN last'[n].obs.ret = Returned(FALSE)
              ELSE last'[n].obs.ret =
                       call(flt[n], WithEmptyTag(flt[n], last'[n].batch[1]),
                            Instants[clock]).ret]_vars

\* an opt-out filter matched a resource that has no tag: the default
\* schedule was applied
C2_Witness ==
    \E n \in DOMAIN flt :
        /\ last[n].op = "call"
        /\ HasNoTag(flt[n], last[n].batch[1])
        /\ flt[n].opt_out
        /\ last[n].obs.ret = Returned(TRUE)

\* the tag value of i for the filter, lowercased and without the quotes
\* around it; None when i has no such tag
NormalizedTag(self, i) ==
    IF HasNoTag(self, i) THEN None
    ELSE Some(strip(strip(lower(find_tag(TagsOf(i), self.tag_key).val), "'"), "\""))

\* C3: a call on a resource whose normalized tag value is `off` appends the
\* resource to opted_out and returns no-match, whatever the time_type, the
\* instant and the opt-out mode.
C3_OffSentinel ==
    [][\A n \in DOMAIN flt :
          (CalledOn(n) /\ NormalizedTag(flt[n], last'[n].batch[1]) = Some(TT_OFF)) =>
              /\ last'[n].obs.ret = Returned(FALSE)
              /\ flt'[n].opted_out = Append(flt[n].opted_out, last'[n].batch[1])]_vars

\* an OffHour filter in opt-out mode was called on a resource tagged "OFF"
\* in quotes and upper case
C3_Witness ==
    \E n \in DOMAIN flt :
        /\ flt[n].time_type = TT_OFF /\ flt[n].opt_out
        /\ last[n].op = "call"
        /\ last[n].batch[1] = R_off
        /\ last[n].obs.step = "opted_out"
        /\ flt[n].opted_out # <<>>

\* OnHour and OffHour last evaluated the same resource at the same instant
\* on the same schedule and the same range view
SameEvaluation(n, m) ==
    /\ flt[n].time_type = TT_ON /\ flt[m].time_type = TT_OFF
    /\ Ranged(n) /\ Ranged(m)
    /\ last[n].obs.rid = last[m].obs.rid
    /\ last[n].obs.instant = last[m].obs.instant
    /\ last[n].obs.schedule = last[m].obs.schedule
    /\ last[n].obs.ranged = last[m].obs.ranged

\* C4 as claimed: on the same schedule, range view and instant exactly one
\* of OnHour and OffHour returns match.
C4_AsClaimed ==
    \A n, m \in TimeFilters :
        SameEvaluation(n, m) => last[n].obs.ret.val # last[m].obs.ret.val

\* C4: on the same schedule, range view and instant, exactly one of OnHour
\* and OffHour returns match when every entry of now's weekday has a start
\* and an end; when an entry lacks one, neither returns match.
C4_Opposite ==
    \A n, m \in TimeFilters :
        SameEvaluation(n, m) =>
            IF Paired(RangeViewOf(n), NowOf(n))
            THEN last[n].obs.ret.val # last[m].obs.ret.val
            ELSE last[n].obs.ret = Returned(FALSE) /\ last[m].obs.ret = Returned(FALSE)

\* OnHour matched and OffHour did not, on the same resource and instant
C4_Witness ==
    \E n, m \in TimeFilters :
        /\ SameEvaluation(n, m)
        /\ Paired(RangeViewOf(n), NowOf(n))
        /\ last[n].obs.ret = Returned(TRUE)
        /\ last[m].obs.ret = Returned(FALSE)

\* C5: an evaluation always returns a boolean, the boolean is no-match when
\* an exception was raised while building, validating or evaluating the
\* schedule, and a pass over a resource list returns a list: no exception
\* leaves the evaluation or the pass.
C5_FailureContained ==
    \A n \in DOMAIN flt :
        /\ ~last[n].obs.ret.raised
        /\ last[n].obs.ret.val \in BOOLEAN
        /\ last[n].obs.exc # "" => last[n].obs.ret = Returned(FALSE)
        /\ ~last[n].out.raised
        /\ last[n].op = "process" => Len(last[n].out.val) <= Len(last[n].batch)

\* a pass ran to its end although the evaluation of its last resource raised
C5_Witness ==
    \E n \in DOMAIN flt :
        /\ last[n].op = "process"
        /\ last[n].batch # <<>>
        /\ last[n].obs.rid = last[n].batch[Len(last[n].batch)].InstanceId
        /\ last[n].obs.exc # ""
        /\ ~last[n].out.raised

\* C6: a call of OnHour or OffHour whose value yields no schedule, or a
\* schedule whose tz does not resolve, returns no-match and appends exactly
\* the pair (resource id, value) to parse_errors; a call whose schedule is
\* there and whose tz resolves leaves parse_errors as it was.
C6_ParseErrors ==
    [][\A n \in TimeFilters :
          (CalledOn(n) /\ last'[n].obs.step = "scheduled") =>
              IF last'[n].obs.schedule.isNone \/ last'[n].obs.zone.isNone
              THEN /\ last'[n].obs.ret = Returned(FALSE)
                   /\ flt'[n].parse_errors =
                          Append(flt[n].parse_errors,
                                 <<last'[n].obs.rid, last'[n].obs.value.val>>)
              ELSE flt'[n].parse_errors = flt[n].parse_errors]_vars

\* a call recorded a parse error for a schedule whose tz does not resolve,
\* after one for a value that yields no schedule
C6_Witness ==
    \E n \in TimeFilters :
        /\ last[n].op = "call" /\ Scheduled(n)
        /\ ~last[n].obs.schedule.isNone /\ last[n].obs.zone.isNone
        /\ Len(flt[n].parse_errors) = 2
        /\ flt[n].parse_errors[2] = <<last[n].obs.rid, last[n].obs.value.val>>

\* off=(m-f,18);on=(m-f,8);tz=pt, the canonical form of 8:00-18:00 PT
V_canonical ==
    <<"o", "f", "f", "=", "(", "m", "-", "f", ",", "1", "8", ")", ";",
      "o", "n", "=", "(", "m", "-", "f", ",", "8", ")", ";", "t", "z",
      "=", "p", "t">>

\* C7 as claimed: the business-hours filter decides a resource tagged
\* 8:00-18:00 PT as the core OnHour filter decides the resource tagged
\* off=(m-f,18);on=(m-f,8);tz=pt at the same instant (a match on a Wednesday
\* at 09:00 in Los Angeles).
C7_AsClaimed ==
    \A n \in DOMAIN flt :
        (/\ flt[n].cls = "BusinessHours"
         /\ Scheduled(n)
         /\ last[n].obs.value = Some(lower(V_business))) =>
            last[n].obs.ret =
                call(Time_init("OnHour", EmptyDict),
                     tagged(last[n].obs.rid, V_canonical),
                     last[n].obs.instant).ret

\* the value of the tag carries a tz and no key of the filter's time_type
TzOnly(n) ==
    /\ Scheduled(n)
    /\ TZ \in DOMAIN raw_data(last[n].obs.value.val)
    /\ flt[n].time_type \notin DOMAIN raw_data(last[n].obs.value.val)

\* C8 as claimed: a value with a tz key and no key of the filter's time_type
\* is evaluated with the toggles of the default schedule, in the zone the
\* tag's tz names.
C8_AsClaimed ==
    \A n \in TimeFilters :
        TzOnly(n) =>
            /\ last[n].obs.schedule =
                   Some(dict_set(flt[n].default_schedule.val, TZ,
                                 raw_data(last[n].obs.value.val)[TZ]))
            /\ ~last[n].obs.zone.isNone

\* C8: a value with a tz key, no key of the filter's time_type and no key
\* other than on, off and tz is evaluated with the toggles of the default
\* schedule and the tag's tz, in the zone that tz names when it names one
\* (pt names America/Los_Angeles); with another key the value yields no
\* schedule.
C8_TzOverride ==
    \A n \in TimeFilters :
        TzOnly(n) =>
            IF keys_are_valid(last[n].obs.value.val)
            THEN /\ last[n].obs.schedule =
                        Some(dict_set(flt[n].default_schedule.val, TZ,
                                      raw_data(last[n].obs.value.val)[TZ]))
                 /\ last[n].obs.zone = get_tz(raw_data(last[n].obs.value.val)[TZ])
            ELSE last[n].obs.schedule.isNone

\* a filter whose default_tz is not pt evaluated tz=pt in Los Angeles
C8_Witness ==
    \E n \in TimeFilters :
        /\ TzOnly(n)
        /\ last[n].obs.value = Some(V_tz_pt)
        /\ get_tz(flt[n].default_tz) # Some("America/Los_Angeles")
        /\ last[n].obs.zone = Some("America/Los_Angeles")
        /\ ~last[n].obs.matched.isNone

\* every toggle of the schedule has an hour in 0..23, a minute in 0..59 and
\* days in 0..6
TogglesInRange(schedule) ==
    \A key \in {TT_ON, TT_OFF} \cap DOMAIN schedule :
        \A k \in 1..Len(schedule[key]) :
            /\ schedule[key][k].hour \in 0..23
            /\ schedule[key][k].minute \in 0..59
            /\ \A j \in 1..Len(schedule[key][k].days) :
                   schedule[key][k].days[j] \in 0..6

\* the tz the string names: the value of its last tz=... part, or the empty
\* string
TagTz(s) ==
    LET parts == split(s, <<";">>)
        named == {k \in 1..Len(parts) :
                      /\ Len(split(parts[k], <<"=">>)) = 2
                      /\ split(parts[k], <<"=">>)[1] = TZ}
    IN  IF named = {} THEN <<>>
        ELSE split(parts[CHOOSE k \in named : \A j \in named : j <= k],
                   <<"=">>)[2]

\* C9 as claimed: parse returns nothing or a schedule whose tz resolves and
\* whose toggles are in range, and never raises.
C9_AsClaimed ==
    (plast.called /\ ~parser.default_schedule.isNone) =>
        /\ ~plast.ret.raised
        /\ \/ plast.ret.val.isNone
           \/ /\ ~get_tz(plast.ret.val.val[TZ]).isNone
              /\ TogglesInRange(plast.ret.val.val)

\* C9: on a parser that has a default schedule, parse never raises and
\* returns nothing or a schedule whose toggles are in range and whose tz is
\* the tz the string names, kept as written whether it resolves or not, or
\* the tz of the default schedule when the string names none; on a parser
\* without a default schedule parse raises only for a string that names no
\* tz.
C9_ParserTotal ==
    plast.called =>
        /\ ~parser.default_schedule.isNone => ~plast.ret.raised
        /\ plast.ret.raised =>
               plast.ret.exc = "TypeError" /\ TagTz(plast.tag_value) = <<>>
        /\ (~plast.ret.raised /\ ~plast.ret.val.isNone) =>
               /\ TogglesInRange(plast.ret.val.val)
               /\ IF TagTz(plast.tag_value) # <<>>
                  THEN plast.ret.val.val[TZ] = TagTz(plast.tag_value)
                  ELSE /\ ~parser.default_schedule.isNone
                       /\ plast.ret.val.val[TZ] = parser.default_schedule.val[TZ]

\* parse returned a schedule with a tz that resolves to no zone, and one
\* whose tz is the default's
C9_Witness ==
    /\ plast.called /\ ~plast.ret.raised /\ ~plast.ret.val.isNone
    /\ TagTz(plast.tag_value) = <<>>
    /\ plast.ret.val.val[TZ] = parser.default_schedule.val[TZ]
    /\ \E s \in DOMAIN parser.cache : get_tz(parser.cache[s][TZ]).isNone

\* some group of an on or off value of the string has fewer than 2 or more
\* than 3 comma-separated fields
HasMiscountedGroup(s) ==
    \E k \in 1..Len(split(s, <<";">>)) :
        LET kv == split(split(s, <<";">>)[k], <<"=">>)
        IN  /\ Len(kv) = 2
            /\ kv[1] \in {TT_ON, TT_OFF}
            /\ \E j \in 1..Len(split(translate_delete(kv[2], {"[", "]"}),
                                     <<",", "(">>)) :
                   Len(split(translate_delete(
                                 split(translate_delete(kv[2], {"[", "]"}),
                                       <<",", "(">>)[j],
                                 {"(", ")"}),
                             <<",">>)) \notin {2, 3}

\* C10 as claimed: parse returns nothing for every string in which a group
\* of an on or off value has fewer than 2 or more than 3 fields.
C10_AsClaimed ==
    (/\ plast.called
     /\ ~parser.default_schedule.isNone
     /\ HasMiscountedGroup(plast.tag_value)) =>
        plast.ret = Returned(None)

\* C11 as claimed: once process(resources) has returned, parse_errors and
\* opted_out are both empty.
C11_AsClaimed ==
    \A n \in DOMAIN flt :
        last[n].op = "process" =>
            flt[n].parse_errors = <<>> /\ flt[n].opted_out = <<>>

\* filter n ran an operation (a call or a pass) in this step
SteppedOn(n) ==
    /\ ncalls' = ncalls + 1
    /\ last'[n].seq = ncalls + 1

\* the parser of filter n as it was when constructed: the same default
\* schedule, nothing cached
FreshParser(n) ==
    [default_schedule |-> flt[n].parser.default_schedule, cache |-> EmptyDict]

\* C12: every parse made by an evaluation returns what a fresh parser with
\* the same default schedule returns for the same string, and no operation
\* on a filter, parse or evaluation, removes or changes an entry that the
\* cache of its parser holds.
C12_CacheTransparent ==
    [][\A n \in DOMAIN flt :
          /\ \A s \in DOMAIN flt[n].parser.cache :
                 /\ s \in DOMAIN flt'[n].parser.cache
                 /\ flt'[n].parser.cache[s] = flt[n].parser.cache[s]
          /\ (/\ CalledOn(n)
              /\ flt[n].cls # "BusinessHours"
              /\ last'[n].obs.step = "scheduled"
              /\ has_resource_schedule(last'[n].obs.value.val, flt[n].time_type))
                 => Returned(last'[n].obs.schedule) =
                        parse(FreshParser(n), last'[n].obs.value.val).ret]_vars

\* the second of two passes over the same resources found every schedule of
\* the first in the cache, one of them with the tz its tag names
C12_Witness ==
    \E n \in TimeFilters :
        /\ last[n].op = "process" /\ last[n].seq = 2
        /\ last[n].batch = <<R_off, R_bad_tz, R_full>>
        /\ flt[n].enabled_count = 4
        /\ DOMAIN flt[n].parser.cache =
               {V_bad_tz, SubSeq(V_full, 1, Len(V_full) - 1)}
        /\ last[n].obs.schedule = Some(flt[n].parser.cache[last[n].obs.value.val])
        /\ last[n].obs.schedule.val[TZ] # flt[n].default_tz

\* the evaluation of i by the filter goes past the opt-in gate and the off
\* sentinel
Evaluated(self, i) ==
    /\ ~(HasNoTag(self, i) /\ ~self.opt_out)
    /\ NormalizedTag(self, i) # Some(TT_OFF)

\* C13 as claimed: an evaluation that ends in parse_errors does not increase
\* enabled_count.
C13_AsClaimed ==
    [][\A n \in TimeFilters :
          (/\ CalledOn(n)
           /\ last'[n].obs.step = "scheduled"
           /\ (last'[n].obs.schedule.isNone \/ last'[n].obs.zone.isNone))
              => flt'[n].enabled_count = flt[n].enabled_count]_vars

\* C13: enabled_count counts the evaluations that are not opted out: every
\* call or pass increases it by the number of its resources that have the
\* tag (or lack it in opt-out mode) and whose normalized value is not `off`,
\* whether or not the value yields a valid schedule; a resource that ends
\* in parse_errors, or whose evaluation fails, increases it too.
C13_EnabledCount ==
    [][\A n \in DOMAIN flt :
          SteppedOn(n) =>
              flt'[n].enabled_count =
                  flt[n].enabled_count +
                  Cardinality({k \in 1..Len(last'[n].batch) :
                                   Evaluated(flt[n], last'[n].batch[k])})]_vars

\* a pass over three resources counted two of them, one of which ended in
\* parse_errors
C13_Witness ==
    \E n \in TimeFilters :
        /\ last[n].op = "process"
        /\ Len(last[n].batch) = 3
        /\ flt[n].enabled_count = 2
        /\ manager.parse_errors_json # None


\* C14 as claimed: the business-hours short-form parser returns on a
\* well-formed value (the evaluation of a resource tagged 8:00-18:00 PT by
\* the business-hours filter ends without an exception), and when it fails
\* on a value the exception is a FilterValidationError and no other kind.
C14_AsClaimed ==
    \A n \in DOMAIN flt :
        (flt[n].cls = "BusinessHours" /\ Scheduled(n)) =>
            /\ last[n].obs.value = Some(lower(V_business)) =>
                   last[n].obs.exc = ""
            /\ last[n].obs.exc \in {"", "FilterValidationError"}

\* the on toggles of the schedule that cover weekday d
OnTogglesCovering(schedule, d) ==
    {k \in 1..Len(schedule[TT_ON]) :
        \E j \in 1..Len(schedule[TT_ON][k].days) :
            schedule[TT_ON][k].days[j] = d}

\* the entries of weekday d in the range view that have a start
StartedEntries(view, d) ==
    IF d \in DOMAIN view
    THEN {k \in 1..Len(view[d]) : RANGE_START \in DOMAIN view[d][k]}
    ELSE {}

\* C15 as claimed: the range view has, for each weekday, one entry with a
\* start per on toggle covering that day, so that two on/off pairs on one
\* weekday, as in on=[(m,8),(m,14)];off=[(m,12),(m,18)], give that weekday
\* two intervals.
C15_AsClaimed ==
    \A n \in TimeFilters :
        Ranged(n) =>
            \A d \in 0..6 :
                Cardinality(StartedEntries(RangeViewOf(n), d)) =
                    Cardinality(OnTogglesCovering(last[n].obs.schedule.val, d))

\* C16 as claimed: once validate has returned on an OnHour or OffHour filter,
\* every toggle of the filter's default schedule, in the on list and in the
\* off list, has its hour in 0..23 and its minute in 0..59.
C16_AsClaimed ==
    \A n \in TimeFilters :
        flt[n].validated = "ok" =>
            /\ ~flt[n].default_schedule.isNone
            /\ TogglesInRange(flt[n].default_schedule.val)
====
